---- MODULE Spec2Model ----
(***************************************************************************)
(* A model of fckeditor_uploader.py: the callback-argument parser          *)
(* parse_onupload_list, the upload primitive upload_file, the endpoint     *)
(* discovery get_upload_url and the run of main.                           *)
(*                                                                         *)
(* Text is a sequence of characters.  A character is a one-character       *)
(* string; a code point outside the printable alphabet of the model is     *)
(* written "<U+n>" (n decimal), and the callback name is one token, spelt  *)
(* in one of the letter cases of CallbackSpellings.                        *)
(***************************************************************************)
EXTENDS Integers, Sequences, FiniteSets, TLC

\* ------------------------------------------------------------------ bounds
\* longest raw argument text typed between the head and the tail of a body
MaxLen == 4
\* longest rendered argument list of a generated well-formed invocation
MaxSrcLen == 6
\* most base URLs in the URL list of a run
MaxUrls == 2
\* most <option> elements on the test pages of a run, taken together
MaxOptions == 3
\* most entries in the upload folder
MaxFiles == 2

\* -------------------------------------------------------------- characters
dq == "\""
sq == "'"
bs == "\\"
LF == "<U+10>"
EAcute == "<U+233>"

\* re.I: the spellings of the callback name that the pattern matches
CallbackSpellings == {"OnUploadCompleted", "ONUPLOADCOMPLETED"}

\* str.strip() and \s: the whitespace of the alphabet
IsSpace(c) == c \in {" ", LF}

RECURSIVE Join(_)
\* ''.join(chars)
Join(s) == IF s = <<>> THEN "" ELSE Head(s) \o Join(Tail(s))

Min(S) == CHOOSE x \in S : \A y \in S : x <= y

\* ------------------------------------------------------------- str.strip()
RECURSIVE LStrip(_)
LStrip(s) == IF s /= <<>> /\ IsSpace(Head(s)) THEN LStrip(Tail(s)) ELSE s

RECURSIVE RStrip(_)
RStrip(s) ==
    IF s /= <<>> /\ IsSpace(s[Len(s)]) THEN RStrip(SubSeq(s, 1, Len(s) - 1)) ELSE s

Strip(s) == RStrip(LStrip(s))

\* ------------------------------------------- re.search, line 39 of the source
\* first index >= i that holds no whitespace (Len(text) + 1 when there is none)
SkipSpace(text, i) ==
    Min({j \in i..(Len(text) + 1) : j = Len(text) + 1 \/ ~IsSpace(text[j])})

\* the pattern matches with the name at index i: name, \s*, "(", .*?, ")"
MatchesAt(text, i) ==
    /\ text[i] \in CallbackSpellings
    /\ LET j == SkipSpace(text, i + 1)
       IN  /\ j <= Len(text)
           /\ text[j] = "("
           /\ \E k \in (j + 1)..Len(text) : text[k] = ")"

\* re_search without the closing "\)" of the pattern: group 1 runs to the first
\* ")" or, when there is none, to the end of the text
re_search_unclosed(text) ==
    LET starts == {i \in 1..Len(text) :
                     /\ text[i] \in CallbackSpellings
                     /\ SkipSpace(text, i + 1) <= Len(text)
                     /\ text[SkipSpace(text, i + 1)] = "("}
    IN  IF starts = {}
        THEN [matched |-> FALSE, group1 |-> <<>>]
        ELSE LET j == SkipSpace(text, Min(starts) + 1)
                 k == Min({c \in (j + 1)..(Len(text) + 1) :
                             c = Len(text) + 1 \/ text[c] = ")"})
             IN  [matched |-> TRUE, group1 |-> SubSeq(text, j + 1, k - 1)]

\* re.search(r"OnUploadCompleted\s*\((.*?)\)", text, re.S | re.I): the leftmost
\* match, and in it the shortest group 1 (up to the first ")" after the "(")
re_search(text) ==
    LET starts == {i \in 1..Len(text) : MatchesAt(text, i)}
    IN  IF starts = {}
        THEN [matched |-> FALSE, group1 |-> <<>>]
        ELSE LET j == SkipSpace(text, Min(starts) + 1)
                 k == Min({c \in (j + 1)..Len(text) : text[c] = ")"})
             IN  [matched |-> TRUE, group1 |-> SubSeq(text, j + 1, k - 1)]

\* ------------------------- bytes(s, 'utf-8').decode('unicode_escape'), l. 72
\* the UTF-8 bytes of a character, each read back as one Latin-1 character
Utf8AsLatin1(c) == IF c = EAcute THEN <<"<U+195>", "<U+169>">> ELSE <<c>>

OctalDigits == {"0", "1", "2"}
OctVal(c) == IF c = "0" THEN 0 ELSE IF c = "1" THEN 1 ELSE 2
Chr(n) == "<U+" \o ToString(n) \o ">"

\* number of octal digits of the escape that starts at s[i] (at most three)
OctRun(s, i) ==
    IF i + 1 <= Len(s) /\ s[i + 1] \in OctalDigits
    THEN IF i + 2 <= Len(s) /\ s[i + 2] \in OctalDigits THEN 3 ELSE 2
    ELSE 1

RECURSIVE OctNum(_, _, _)
OctNum(s, i, n) == IF n = 0 THEN 0 ELSE OctNum(s, i, n - 1) * 8 + OctVal(s[i + n - 1])

RECURSIVE DecodeFrom(_, _)
\* decodes s[i..]; raised is the UnicodeDecodeError "\ at end of string"
DecodeFrom(s, i) ==
    IF i > Len(s) THEN [raised |-> FALSE, out |-> <<>>]
    ELSE IF s[i] /= bs
    THEN LET r == DecodeFrom(s, i + 1)
         IN  [raised |-> r.raised, out |-> Utf8AsLatin1(s[i]) \o r.out]
    ELSE IF i = Len(s) THEN [raised |-> TRUE, out |-> <<>>]
    ELSE LET e == s[i + 1]
         IN  IF e \in {bs, sq, dq}
             THEN LET r == DecodeFrom(s, i + 2)
                  IN  [raised |-> r.raised, out |-> <<e>> \o r.out]
             ELSE IF e = "n"
             THEN LET r == DecodeFrom(s, i + 2)
                  IN  [raised |-> r.raised, out |-> <<LF>> \o r.out]
             ELSE IF e \in OctalDigits
             THEN LET n == OctRun(s, i + 1)
                      r == DecodeFrom(s, i + 1 + n)
                  IN  [raised |-> r.raised,
                       out |-> <<Chr(OctNum(s, i + 1, n))>> \o r.out]
             ELSE \* an unknown escape keeps its backslash
                  LET r == DecodeFrom(s, i + 1)
                  IN  [raised |-> r.raised, out |-> <<bs>> \o r.out]

unicode_escape(s) == DecodeFrom(s, 1)

\* --------------------------------------- parse_onupload_list, lines 34 to 88
\* len(arg) >= 2 and arg[0] in '"\'' and arg[-1] == arg[0]
IsQuoted(arg) == Len(arg) >= 2 /\ arg[1] \in {dq, sq} /\ arg[Len(arg)] = arg[1]

\* lines 71 to 75 and 82 to 86: the value appended for a non-empty trimmed arg
ArgValue(arg) ==
    IF IsQuoted(arg)
    THEN LET d == unicode_escape(SubSeq(arg, 2, Len(arg) - 1))
         IN  [raised |-> d.raised, val |-> Join(d.out)]
    ELSE [raised |-> FALSE, val |-> Join(arg)]

ScanStart ==
    [args |-> <<>>, buf |-> <<>>, in_str |-> FALSE, quote |-> "None",
     esc |-> FALSE, raised |-> FALSE]

\* one iteration of "for ch in arg_str", lines 50 to 78
ScanStep(st, ch) ==
    IF st.raised THEN st
    ELSE IF st.in_str
    THEN IF st.esc
         THEN [st EXCEPT !.buf = Append(@, ch), !.esc = FALSE]
         ELSE IF ch = bs
         THEN [st EXCEPT !.esc = TRUE, !.buf = Append(@, ch)]
         ELSE IF ch = st.quote
         THEN [st EXCEPT !.in_str = FALSE, !.buf = Append(@, ch)]
         ELSE [st EXCEPT !.buf = Append(@, ch)]
    ELSE IF ch \in {sq, dq}
    THEN [st EXCEPT !.in_str = TRUE, !.quote = ch, !.buf = Append(@, ch)]
    ELSE IF ch = ","
    THEN LET arg == Strip(st.buf)
         IN  IF arg /= <<>>
             THEN LET v == ArgValue(arg)
                  IN  IF v.raised
                      THEN [st EXCEPT !.raised = TRUE]
                      ELSE [st EXCEPT !.args = Append(@, v.val), !.buf = <<>>]
             ELSE [st EXCEPT !.buf = <<>>]
    ELSE [st EXCEPT !.buf = Append(@, ch)]

RECURSIVE ScanFrom(_, _, _)
ScanFrom(st, s, i) == IF i > Len(s) THEN st ELSE ScanFrom(ScanStep(st, s[i]), s, i + 1)

\* "if buf:", lines 80 to 86
FinalFlush(st) ==
    IF st.raised \/ st.buf = <<>> THEN st
    ELSE LET arg == Strip(st.buf)
         IN  IF IsQuoted(arg)
             THEN LET v == ArgValue(arg)
                  IN  IF v.raised
                      THEN [st EXCEPT !.raised = TRUE]
                      ELSE [st EXCEPT !.args = Append(@, v.val)]
             ELSE IF arg /= <<>>
             THEN [st EXCEPT !.args = Append(@, Join(arg))]
             ELSE st

\* how a call ends: with a value (exc = "none"), or with an exception of class
\* exc whose message is msg
Returned(v) == [exc |-> "none", value |-> v, msg |-> <<>>]
Raised(e, m) == [exc |-> e, value |-> <<>>, msg |-> m]

parse_onupload_list(text) ==
    LET m == re_search(text)
    IN  IF ~m.matched THEN Returned(<<>>)
        ELSE LET st == FinalFlush(ScanFrom(ScanStart, Strip(m.group1), 1))
             IN  IF st.raised
                 THEN Raised("UnicodeDecodeError", <<"\\ at end of string">>)
                 ELSE Returned(st.args)

\* ------------------------------------------------ upload_file, lines 91 to 121
\* the response of requests.post: a transport error, or a status and a body
TransportError == [error |-> TRUE, status_code |-> 0, text |-> <<>>]
Response(status, body) == [error |-> FALSE, status_code |-> status, text |-> body]

\* f"\u4e0a\u4f20\u5931\u8d25: {resp.status_code},{resp.text}", lines 120 and 121
FailureMessage(resp) == <<"upload failed: ", ToString(resp.status_code), ",">> \o resp.text

\* line 118, "parsed and parsed[0] == '0' or parsed[0] == '201'", which Python
\* reads as "(parsed and parsed[0] == '0') or parsed[0] == '201'": on an empty
\* list the right operand is evaluated and parsed[0] raises IndexError
\* the test written as "not parsed or parsed[0] in ('0', '201')"
SuccessTest_or_empty(parsed) ==
    IF parsed = <<>> \/ parsed[1] \in {"0", "201"} THEN "true" ELSE "false"

SuccessTest(parsed) ==
    IF parsed /= <<>> /\ parsed[1] = "0" THEN "true"
    ELSE IF parsed = <<>> THEN "IndexError"
    ELSE IF parsed[1] = "201" THEN "true"
    ELSE "false"

\* lines 116 to 121
Classify(resp) ==
    IF resp.status_code = 200 /\ resp.text /= <<>>
    THEN LET parsed == parse_onupload_list(resp.text)
         IN  IF parsed.exc /= "none" THEN parsed
             ELSE LET t == SuccessTest(parsed.value)
                  IN  IF t = "true" THEN Returned(parsed.value)
                      ELSE IF t = "IndexError"
                      THEN Raised("IndexError", <<"list index out of range">>)
                      ELSE Raised("Exception", FailureMessage(resp))
    ELSE Raised("Exception", FailureMessage(resp))

\* a call that posts before it looks at the file
PostsOf_always(is_file) == 1

\* the number of HTTP POSTs one call issues, lines 93 and 114
PostsOf(is_file) == IF is_file THEN 1 ELSE 0

\* upload_file(url, file_path): is_file is file_path.is_file() at line 93 and
\* resp what requests.post answers at line 114
upload_file(url, is_file, resp) ==
    IF ~is_file THEN Raised("FileNotFoundError", <<"no such file">>)
    ELSE IF resp.error THEN Raised("RequestException", <<"transport error">>)
    ELSE Classify(resp)

\* the classes of the exceptions the calls of a run raise
Exceptions ==
    {"FileNotFoundError", "RequestException", "IndexError", "UnicodeDecodeError", "Exception"}

\* a handler that lets every exception pass
IsException_never(exc) == FALSE

\* "except Exception" at lines 159, 162 and 224: every class of Exceptions
\* derives from Exception, so the handler takes the exception exc
IsException(exc) == exc \in Exceptions

\* ------------------------------------------ URL_PARAM_MAP, lines 17 to 31
\* A URL, an option value and a template are sequences of atoms.  An atom is a
\* piece of text; they are cut so that every occurrence of a text the code
\* looks for (a key of URL_PARAM_MAP, "upload", "connectors", "{timestamp}",
\* the last segment of a base URL) begins and ends at atom boundaries.
NoneParam == [none |-> TRUE, s |-> <<>>]
Param(s) == [none |-> FALSE, s |-> s]

\* the dict in insertion order, which is the order .items() iterates in
URL_PARAM_MAP ==
    << [key |-> <<"default", "/", "connectors", "/", "test.html">>,
        param |-> Param(<<"Command=FileUpload&Type=File&CurrentFolder=%2F">>)],
       [key |-> <<"filemanager", "/", "connectors", "/", "test.html">>,
        param |-> Param(<<"Command=FileUpload&Type=File&CurrentFolder=%2F">>)],
       [key |-> <<"connectors", "/", "upload", "test.html">>,
        param |-> Param(<<"time=", "{timestamp}", "&Type=File">>)],
       [key |-> <<"upload", "/", "test.html">>,
        param |-> NoneParam] >>

\* "old in s" on strings
Contains(s, old) ==
    \E i \in 1..(Len(s) - Len(old) + 1) : SubSeq(s, i, i + Len(old) - 1) = old

\* the largest element of a non-empty set of numbers
Max(S) == CHOOSE x \in S : \A y \in S : y <= x

\* the entries of table whose key occurs in base_url
Hits(table, base_url) == {i \in 1..Len(table) : Contains(base_url, table[i].key)}

\* a lookup in which the last matching key decides
LookupParams_last(table, base_url) ==
    IF Hits(table, base_url) = {} THEN NoneParam
    ELSE table[Max(Hits(table, base_url))].param

\* lines 136 to 140: the param of the first key, in the order of the dict
\* table, that occurs in base_url; None when there is none
LookupParams(table, base_url) ==
    IF Hits(table, base_url) = {} THEN NoneParam
    ELSE table[Min(Hits(table, base_url))].param

\* ------------------------------------------------ str.split and str.replace
\* s.split('/')[-1]
LastSegment(s) ==
    LET slashes == {i \in 1..Len(s) : s[i] = "/"}
    IN  IF slashes = {} THEN s
        ELSE SubSeq(s, (CHOOSE i \in slashes : \A j \in slashes : j <= i) + 1, Len(s))

RECURSIVE ReplaceFrom(_, _, _, _)
\* s[i..] with every occurrence of the non-empty old, found left to right
\* without overlap, replaced by new
ReplaceFrom(s, i, old, new) ==
    IF i > Len(s) THEN <<>>
    ELSE IF i + Len(old) - 1 <= Len(s) /\ SubSeq(s, i, i + Len(old) - 1) = old
    THEN new \o ReplaceFrom(s, i + Len(old), old, new)
    ELSE <<s[i]>> \o ReplaceFrom(s, i + 1, old, new)

RECURSIVE Interleave(_, _)
\* new before every character of s
Interleave(s, new) ==
    IF s = <<>> THEN <<>> ELSE new \o <<Head(s)>> \o Interleave(Tail(s), new)

\* s.replace(old, new): every occurrence of old; the empty old occurs before
\* every character and at the end
Replace(s, old, new) ==
    IF old = <<>> THEN Interleave(s, new) \o new ELSE ReplaceFrom(s, 1, old, new)

\* ------------------------------------------ get_upload_url, lines 124 to 165
\* an <option>: its value attribute, or none (option.get("value") is None)
NoValue == [has |-> FALSE, value |-> <<>>]
Value(v) == [has |-> TRUE, value |-> v]

\* a test that takes every value that is not empty
Qualifies_nonempty(option) == option.has /\ option.value /= <<>>

\* lines 144 to 146: "not option_value" is true of None and of ""
Qualifies(option) ==
    /\ option.has
    /\ option.value /= <<>>
    /\ (Contains(option.value, <<"upload">>) \/ Contains(option.value, <<"connectors">>))

\* lines 148 and 149
CandidateBase(base_url, option_value) ==
    Replace(base_url, LastSegment(base_url), option_value)

\* str(int(datetime.now().timestamp() * 1000)) when the clock reads now
Timestamp(now) == ToString(now)

\* line 153: the value assigned to params
ResolvedParams(p, now) == Param(Replace(p.s, <<"{timestamp}">>, <<Timestamp(now)>>))

\* the local variable params after lines 150 to 153
ParamsAfter(p, now) == IF p.none THEN p ELSE ResolvedParams(p, now)

\* a line 153 that stored the resolved template in the dict
TableAfter_stored(table, base_url, p, now) ==
    IF p.none THEN table
    ELSE [table EXCEPT ![Min(Hits(table, base_url))].param = ResolvedParams(p, now)]

\* the dict after lines 150 to 153: line 153 binds the local name params to
\* the new str that replace returns and writes nothing to the dict
TableAfter(table, base_url, p, now) == table

\* lines 149 to 154: the candidate, built with the params left by line 153
Candidate(base_url, option_value, p, now) ==
    IF p.none THEN CandidateBase(base_url, option_value)
    ELSE CandidateBase(base_url, option_value) \o <<"?">> \o ParamsAfter(p, now).s

\* lines 155 to 161: the try block, left by "return candidate" when
\* upload_file returns and by "continue" when it raises
ProbeReturns_always(res) == TRUE

ProbeReturns(res) == res.exc = "none"

\* what get_upload_url returns
None == [none |-> TRUE, url |-> <<>>]
Some(url) == [none |-> FALSE, url |-> url]

\* ------------------------------------------------ inputs of the parser runs
\* what a body starts with: the name and "(" in several spellings, or less
Heads ==
    { <<"OnUploadCompleted", "(">>,
      <<"ONUPLOADCOMPLETED", " ", "(">>,
      <<"OnUploadCompleted", ",", "OnUploadCompleted", "(">>,
      <<"OnUploadCompleted", "(", "0", ",">>,
      <<"OnUploadCompleted", "(", "2", "0", "1", ",">>,
      <<"OnUploadCompleted", "(", "2", "0", "2">>,
      <<"OnUploadCompleted">>,
      <<"(">>,
      <<>> }

\* what a body ends with
Tails == { <<>>, <<")">> }

\* the characters typed between head and tail
TypedChars == {")", ",", dq, sq, bs, " ", "n"}

\* A generated argument is [quote, lead, units]: quote is "" for an unquoted
\* token, lead the number of blanks before it, and a unit is one character of
\* the argument's value (val) with the text that writes it (txt).
Plain(c) == [txt |-> <<c>>, val |-> c]
Escaped(c, v) == [txt |-> <<bs, c>>, val |-> v]

TokenUnits == {Plain("n"), Plain("0"), Plain(EAcute)}

StringUnits(q) ==
    {Plain("n"), Plain(","), Plain(")"), Plain(" "), Plain(EAcute),
     Escaped(dq, dq), Escaped(sq, sq), Escaped(bs, bs), Escaped("n", LF)}
    \cup {Plain(c) : c \in {dq, sq} \ {q}}

RECURSIVE UnitsTxt(_)
UnitsTxt(us) == IF us = <<>> THEN <<>> ELSE Head(us).txt \o UnitsTxt(Tail(us))

RECURSIVE UnitsVal(_)
UnitsVal(us) == IF us = <<>> THEN "" ELSE Head(us).val \o UnitsVal(Tail(us))

ArgTxt(a) ==
    (IF a.lead = 1 THEN <<" ">> ELSE <<>>)
    \o (IF a.quote = "" THEN UnitsTxt(a.units)
        ELSE <<a.quote>> \o UnitsTxt(a.units) \o <<a.quote>>)

RECURSIVE ArgsTxt(_)
ArgsTxt(as) ==
    IF as = <<>> THEN <<>>
    ELSE IF Len(as) = 1 THEN ArgTxt(as[1])
    ELSE ArgTxt(as[1]) \o <<",">> \o ArgsTxt(Tail(as))

\* the body that invokes the callback with the arguments as
Render(as) == <<"OnUploadCompleted", "(">> \o ArgsTxt(as) \o <<")">>

\* the values the arguments as denote, in source order
Values(as) == [i \in 1..Len(as) |-> UnitsVal(as[i].units)]

\* ---------------------------------------------------- inputs of the runs
\* the base URLs a URL list is drawn from: one that matches the timestamp
\* template, one whose last segment also occurs earlier in the URL, one,
\* spelt character by character, whose last segment is empty and in which no
\* key of URL_PARAM_MAP occurs, and one in which two keys occur
BaseUrls ==
    { <<"http:", "/", "/", "x.ru", "/", "connectors", "/", "upload", "test.html">>,
      <<"http:", "/", "/", "x.ru", "/", "test.html", "/", "upload", "/", "test.html">>,
      <<"h", "t", "t", "p", ":", "/", "/", "x", "/">>,
      <<"http:", "/", "/", "x.ru", "/", "connectors", "/", "upload", "test.html",
        "/", "upload", "/", "test.html">> }

\* the base URLs of the URL list of a run over several
RunUrls ==
    { <<"http:", "/", "/", "x.ru", "/", "connectors", "/", "upload", "test.html">>,
      <<"http:", "/", "/", "x.ru", "/", "test.html", "/", "upload", "/", "test.html">> }

\* the <option> elements the test pages of a run over several base URLs are
\* made of: one that qualifies, one with another value, one without a value
RunOptionPool ==
    { Value(<<"php", "/", "upload", ".php">>),
      Value(<<"lasso">>),
      NoValue }

\* the <option> elements a test page is made of
OptionPool ==
    { Value(<<"php", "/", "upload", ".php">>),
      Value(<<"connectors", "/", "asp", "/", "connector.asp">>),
      Value(<<"lasso">>),
      Value(<<>>),
      NoValue }

SeqsUpTo(S, n) == UNION {[1..k -> S] : k \in 0..n}

\* the bodies an upload endpoint answers with
AnswerBodies ==
    { <<>>,
      <<"n">>,
      <<"OnUploadCompleted", "(", "0", ",", sq, "n", sq, ")">>,
      <<"OnUploadCompleted", "(", "2", "0", "1", ",", dq, "n", dq, ")">>,
      <<"OnUploadCompleted", "(", "2", "0", "2", ",", sq, sq, ")">>,
      <<"OnUploadCompleted", "(", dq, "n", bs, dq, ")">> }

\* what requests.post can answer
Answers ==
    {TransportError, Response(404, <<"OnUploadCompleted", "(", "0", ")">>)}
    \cup {Response(200, b) : b \in AnswerBodies}

\* the entries upload_folder.glob("*") can list: regular files and a directory
FolderEntries ==
    { [name |-> "a.txt", is_file |-> TRUE],
      [name |-> "b.txt", is_file |-> TRUE],
      [name |-> "sub", is_file |-> FALSE] }

\* listings without a repeated name
Listings == {l \in SeqsUpTo(FolderEntries, MaxFiles) : \A i, j \in 1..Len(l) : l[i] = l[j] => i = j}

\* the listings of a run over several base URLs: glob("*") yields the
\* entries in the order of their names
RunListings ==
    {l \in Listings : \A i, j \in 1..Len(l) :
        i < j => (l[i].name = "a.txt" \/ l[j].name = "sub")}

\* what requests.post answers in a run over several base URLs: a transport
\* error, a status that is not 200, and with status 200 a body without
\* invocation, a success, a first argument that is no success and a body
\* whose decoding raises
RunAnswers ==
    { TransportError,
      Response(404, <<"OnUploadCompleted", "(", "0", ")">>),
      Response(200, <<"n">>),
      Response(200, <<"OnUploadCompleted", "(", "0", ",", sq, "n", sq, ")">>),
      Response(200, <<"OnUploadCompleted", "(", "2", "0", "2", ",", sq, sq, ")">>),
      Response(200, <<"OnUploadCompleted", "(", dq, "n", bs, dq, ")">>) }

\* --------------------------------------------------------------- the state
VARIABLES
    mode,       \* "raw": the body is typed character by character;
                \* "args": it is rendered from the argument list src;
                \* "sparse": so it is, and src has a blank argument
    text,       \* the response body handed to parse_onupload_list
    src,        \* the argument list a rendered body is written from
    room,       \* characters that may still be typed
    ppc,        \* "input" before the call, then the function called
    parsed,     \* how the call of ppc ended
    call        \* the other inputs of an upload_file call

VARIABLES
    pc,          \* where main is: "discover" (line 208, before a get_upload_url
                 \* call), "options" (in get_upload_url, the loops of lines 141
                 \* and 142), "returned" (line 209 has assigned endpoint),
                 \* "batch" (the loops of lines 217 and 220), "done" (main has
                 \* returned), "aborted" (an exception has left main)
    url_param_map, \* the module's dict URL_PARAM_MAP as it is now
    fetched,     \* how line 134 ended in the current get_upload_url call:
                 \* "none" (not reached), "error" (it raised), "page"
    confirmed,   \* history: the probes of the run in which upload_file returned
    reported,    \* what lines 212 and 213 logged: the list and its length
    folder,      \* what upload_folder.is_dir() answered at line 216: "dir" or
                 \* "other"; "unknown" before
    infos,       \* the number of logging.info records of line 223
    urls,        \* main's urls, read at line 202
    ui,          \* index in urls of the base URL the loop of line 208 is at
    options,     \* the <option> elements of the fetched page, in document order
    oi,          \* index in options of the element the loop of line 142 is at
    params,      \* get_upload_url's local variable params
    clock,       \* what datetime.now() last read, in milliseconds
    probes,      \* the upload_file calls of the current get_upload_url call
    endpoint,    \* main's endpoint: what the last get_upload_url call returned
    upload_urls, \* main's upload_urls
    files,       \* what upload_folder.glob("*") lists
    fi,          \* index in files of the entry the loop of line 217 is at
    ei,          \* index in upload_urls of the endpoint the loop of line 220 is at
    attempts,    \* the upload_file calls of the batch phase, line 222
    warnings,    \* the number of logging.warning records of line 225
    errors,      \* the number of logging.error records of line 227
    quota        \* <option> elements the pages still to be fetched may hold

pvars == <<mode, text, src, room, ppc, parsed, call>>

mvars == <<pc, urls, ui, options, oi, params, clock, probes, endpoint, upload_urls,
           files, fi, ei, attempts, warnings, errors, quota,
           url_param_map, fetched, confirmed, reported, folder, infos>>

vars == <<mode, text, src, room, ppc, parsed, call,
          pc, urls, ui, options, oi, params, clock, probes, endpoint, upload_urls,
          files, fi, ei, attempts, warnings, errors, quota,
          url_param_map, fetched, confirmed, reported, folder, infos>>

\* lines 212 and 213 have not run
NotReported == [done |-> FALSE, list |-> <<>>, count |-> 0]
Reported(list) == [done |-> TRUE, list |-> list, count |-> Len(list)]

NoCall == [is_file |-> FALSE, resp |-> TransportError, posts |-> 0]

\* ---------------------------------------------------- the runs of the parser
\* main before line 202 has run
MainIdle ==
    /\ pc = "discover"
    /\ urls = <<>>
    /\ ui = 1
    /\ options = <<>>
    /\ oi = 1
    /\ params = NoneParam
    /\ clock = 0
    /\ probes = <<>>
    /\ endpoint = None
    /\ upload_urls = <<>>
    /\ files = <<>>
    /\ fi = 1
    /\ ei = 1
    /\ attempts = <<>>
    /\ warnings = 0
    /\ errors = 0
    /\ quota = 0
    /\ url_param_map = URL_PARAM_MAP
    /\ fetched = "none"
    /\ confirmed = <<>>
    /\ reported = NotReported
    /\ folder = "unknown"
    /\ infos = 0

\* no parser run
ParseIdle ==
    /\ mode = "raw"
    /\ text = <<>>
    /\ src = <<>>
    /\ room = 0
    /\ ppc = "input"
    /\ parsed = Returned(<<>>)
    /\ call = NoCall

ParseInit ==
    /\ MainIdle
    /\ mode \in {"raw", "args"}
    /\ src = <<>>
    /\ room = MaxLen
    /\ ppc = "input"
    /\ parsed = Returned(<<>>)
    /\ call = NoCall
    /\ IF mode = "raw" THEN text \in Heads ELSE text = Render(<<>>)

TypeChar(c) ==
    /\ mode = "raw" /\ ppc = "input" /\ room > 0
    /\ text' = Append(text, c)
    /\ room' = room - 1
    /\ UNCHANGED <<mode, src, ppc, parsed, call>>
    /\ UNCHANGED mvars

\* a new quoted argument, still the empty string
AddString(q, lead) ==
    /\ mode \in {"args", "sparse"} /\ ppc = "input"
    /\ src' = Append(src, [quote |-> q, lead |-> lead, units |-> <<>>])
    /\ Len(ArgsTxt(src')) <= MaxSrcLen
    /\ text' = Render(src')
    /\ UNCHANGED <<mode, room, ppc, parsed, call>>
    /\ UNCHANGED mvars

\* a new unquoted token of one character
AddToken(u, lead) ==
    /\ mode \in {"args", "sparse"} /\ ppc = "input"
    /\ src' = Append(src, [quote |-> "", lead |-> lead, units |-> <<u>>])
    /\ Len(ArgsTxt(src')) <= MaxSrcLen
    /\ text' = Render(src')
    /\ UNCHANGED <<mode, room, ppc, parsed, call>>
    /\ UNCHANGED mvars

\* a new blank argument: nothing, or one blank, between its delimiters
AddBlank(lead) ==
    /\ mode \in {"args", "sparse"} /\ ppc = "input"
    /\ src' = Append(src, [quote |-> "", lead |-> lead, units |-> <<>>])
    /\ Len(ArgsTxt(src')) <= MaxSrcLen
    /\ text' = Render(src')
    /\ mode' = "sparse"
    /\ UNCHANGED <<room, ppc, parsed, call>>
    /\ UNCHANGED mvars

\* one more character in the last argument, unless it is a blank one
AddUnit(u) ==
    /\ mode \in {"args", "sparse"} /\ ppc = "input" /\ src /= <<>>
    /\ LET a == src[Len(src)]
       IN  /\ a.quote = "" => a.units /= <<>>
           /\ u \in (IF a.quote = "" THEN TokenUnits ELSE StringUnits(a.quote))
           /\ src' = [src EXCEPT ![Len(src)].units = Append(@, u)]
    /\ Len(ArgsTxt(src')) <= MaxSrcLen
    /\ text' = Render(src')
    /\ UNCHANGED <<mode, room, ppc, parsed, call>>
    /\ UNCHANGED mvars

\* the call parse_onupload_list(text), the raw body closed by a tail first
CallParse(tail) ==
    /\ ppc = "input"
    /\ mode /= "raw" => tail = <<>>
    /\ text' = text \o tail
    /\ parsed' = parse_onupload_list(text')
    /\ ppc' = "parse_onupload_list"
    /\ UNCHANGED <<mode, src, room, call>>
    /\ UNCHANGED mvars

\* the call upload_file(url, file_path) answered by a response whose body is
\* text; no request is made, so there is no answer, when the file is missing,
\* and an answer that is a transport error has no status and no body; the
\* tail only matters to the parser, which sees the bodies of status 200
CallUpload(tail, is_file, error, status) ==
    /\ ppc = "input"
    /\ mode /= "sparse"
    /\ mode = "args" => tail = <<>>
    /\ ~is_file => error
    /\ error => status = 200 /\ text = <<>> /\ tail = <<>>
    /\ status /= 200 => tail = <<>>
    /\ text' = text \o tail
    /\ LET resp == IF error THEN TransportError ELSE Response(status, text')
       IN  /\ call' = [is_file |-> is_file, resp |-> resp, posts |-> PostsOf(is_file)]
           /\ parsed' = upload_file(<<>>, is_file, resp)
    /\ ppc' = "upload_file"
    /\ UNCHANGED <<mode, src, room>>
    /\ UNCHANGED mvars

ParseNext ==
    \/ \E c \in TypedChars : TypeChar(c)
    \/ \E q \in {dq, sq}, lead \in {0, 1} : AddString(q, lead)
    \/ \E u \in TokenUnits, lead \in {0, 1} : AddToken(u, lead)
    \/ \E lead \in {0, 1} : AddBlank(lead)
    \/ \E u \in TokenUnits \cup StringUnits(dq) \cup StringUnits(sq) : AddUnit(u)
    \/ \E tail \in Tails : CallParse(tail)
    \/ \E tail \in Tails, is_file \in BOOLEAN, error \in BOOLEAN, status \in {200, 404} :
          CallUpload(tail, is_file, error, status)

SpecCalls == ParseInit /\ [][ParseNext]_vars

\* ------------------------------------------------------------ a run of main
\* main after line 202, the URL list read
Started ==
    /\ ParseIdle
    /\ pc = "discover"
    /\ ui = 1
    /\ options = <<>>
    /\ oi = 1
    /\ params = NoneParam
    /\ clock = 0
    /\ probes = <<>>
    /\ endpoint = None
    /\ upload_urls = <<>>
    /\ files = <<>>
    /\ fi = 1
    /\ ei = 1
    /\ attempts = <<>>
    /\ warnings = 0
    /\ errors = 0
    /\ quota = MaxOptions
    /\ url_param_map = URL_PARAM_MAP
    /\ fetched = "none"
    /\ confirmed = <<>>
    /\ reported = NotReported
    /\ folder = "unknown"
    /\ infos = 0

\* a run over a URL list of up to MaxUrls base URLs
Init == Started /\ urls \in SeqsUpTo(RunUrls, MaxUrls)

\* a run over one base URL: one get_upload_url call, then the batch phase
InitOne == Started /\ urls \in {<<b>> : b \in BaseUrls}

\* line 134 raises requests' RequestException: the handler of line 162 takes
\* it and get_upload_url returns None at line 164
FetchFails ==
    /\ pc = "discover" /\ ui <= Len(urls)
    /\ fetched' = "error"
    /\ IF IsException("RequestException")
       THEN endpoint' = None /\ pc' = "returned"
       ELSE pc' = "aborted" /\ UNCHANGED endpoint
    /\ UNCHANGED <<urls, ui, options, oi, params, clock, probes, upload_urls,
                   files, fi, ei, attempts, warnings, errors, quota>>
    /\ UNCHANGED <<url_param_map, confirmed, reported, folder, infos>>
    /\ UNCHANGED pvars

\* lines 134 to 140: the page is fetched and the template looked up
FetchPage(page) ==
    /\ pc = "discover" /\ ui <= Len(urls)
    /\ Len(page) <= quota
    /\ quota' = quota - Len(page)
    /\ fetched' = "page"
    /\ options' = page
    /\ params' = LookupParams(url_param_map, urls[ui])
    /\ pc' = "options"
    /\ UNCHANGED <<urls, ui, oi, clock, probes, endpoint, upload_urls,
                   files, fi, ei, attempts, warnings, errors>>
    /\ UNCHANGED <<url_param_map, confirmed, reported, folder, infos>>
    /\ UNCHANGED pvars

\* lines 143 to 146: an option that is passed over
SkipOption ==
    /\ pc = "options" /\ oi <= Len(options)
    /\ ~Qualifies(options[oi])
    /\ oi' = oi + 1
    /\ UNCHANGED <<pc, urls, ui, options, params, clock, probes, endpoint, upload_urls,
                   files, fi, ei, attempts, warnings, errors, quota>>
    /\ UNCHANGED <<url_param_map, fetched, confirmed, reported, folder, infos>>
    /\ UNCHANGED pvars

\* lines 147 to 161: a candidate is built and probed; the clock, read at line
\* 152 only when there is a template, has advanced by tick milliseconds; no
\* request is made, so there is no answer to choose, when the sample file is
\* missing.  What upload_file raises is taken by the handler of line 159.
ProbeOption(tick, is_file, resp) ==
    /\ pc = "options" /\ oi <= Len(options)
    /\ Qualifies(options[oi])
    /\ params.none => tick = 0
    /\ ~is_file => resp = TransportError
    /\ LET now == IF params.none THEN clock ELSE clock + tick
           candidate == Candidate(urls[ui], options[oi].value, params, now)
           res == upload_file(candidate, is_file, resp)
           probe == [option |-> oi, candidate |-> candidate,
                     read |-> IF params.none THEN -1 ELSE now,
                     ok |-> res.exc = "none"]
       IN  /\ clock' = now
           /\ params' = ParamsAfter(params, now)
           /\ url_param_map' = TableAfter(url_param_map, urls[ui], params, now)
           /\ probes' = Append(probes, probe)
           /\ IF ProbeReturns(res)
              THEN /\ endpoint' = Some(candidate) /\ pc' = "returned" /\ oi' = oi
                   /\ confirmed' = Append(confirmed, [url |-> ui, candidate |-> candidate])
              ELSE IF IsException(res.exc)
              THEN oi' = oi + 1 /\ UNCHANGED <<pc, endpoint, confirmed>>
              ELSE pc' = "aborted" /\ UNCHANGED <<oi, endpoint, confirmed>>
    /\ UNCHANGED <<urls, ui, options, upload_urls, files, fi, ei, attempts, warnings, errors, quota>>
    /\ UNCHANGED <<fetched, reported, folder, infos>>
    /\ UNCHANGED pvars

\* line 165: no option is left
Exhausted ==
    /\ pc = "options" /\ oi > Len(options)
    /\ endpoint' = None
    /\ pc' = "returned"
    /\ UNCHANGED <<urls, ui, options, oi, params, clock, probes, upload_urls,
                   files, fi, ei, attempts, warnings, errors, quota>>
    /\ UNCHANGED <<url_param_map, fetched, confirmed, reported, folder, infos>>
    /\ UNCHANGED pvars

\* an append without the test of line 210
Appended_untested(list, e) == Append(list, e.url)

\* lines 210 and 211: upload_urls after the return value e of get_upload_url
Appended(list, e) == IF e.none THEN list ELSE Append(list, e.url)

\* lines 210 and 211, and the loop of line 208 moves on; the locals of the
\* finished get_upload_url call are gone
MainTakes ==
    /\ pc = "returned"
    /\ upload_urls' = Appended(upload_urls, endpoint)
    /\ ui' = ui + 1
    /\ pc' = "discover"
    /\ options' = <<>>
    /\ oi' = 1
    /\ params' = NoneParam
    /\ probes' = <<>>
    /\ fetched' = "none"
    /\ UNCHANGED <<urls, clock, endpoint, files, fi, ei, attempts, warnings, errors, quota>>
    /\ UNCHANGED <<url_param_map, confirmed, reported, folder, infos>>
    /\ UNCHANGED pvars

\* a batch phase that lists the folder whether or not it is a directory
StartBatch_unchecked(folder_is_dir, listing) ==
    /\ pc = "discover" /\ ui > Len(urls)
    /\ reported' = Reported(upload_urls)
    /\ folder' = IF folder_is_dir THEN "dir" ELSE "other"
    /\ files' = listing
    /\ pc' = "batch"
    /\ errors' = IF folder_is_dir THEN errors ELSE errors + 1
    /\ UNCHANGED <<urls, ui, options, oi, params, clock, probes, endpoint, upload_urls,
                   fi, ei, attempts, warnings, quota>>
    /\ UNCHANGED <<url_param_map, fetched, confirmed, infos>>
    /\ UNCHANGED pvars

\* lines 212 to 217 and 226 to 227: the endpoints found and their number are
\* logged and the batch phase starts; folder_is_dir is upload_folder.is_dir()
\* and listing what glob("*") yields
StartBatch(folder_is_dir, listing) ==
    /\ pc = "discover" /\ ui > Len(urls)
    /\ reported' = Reported(upload_urls)
    /\ folder' = IF folder_is_dir THEN "dir" ELSE "other"
    /\ IF folder_is_dir
       THEN /\ files' = listing
            /\ pc' = "batch"
            /\ UNCHANGED errors
       ELSE /\ listing = <<>>
            /\ files' = <<>>
            /\ errors' = errors + 1
            /\ pc' = "done"
    /\ UNCHANGED <<urls, ui, options, oi, params, clock, probes, endpoint, upload_urls,
                   fi, ei, attempts, warnings, quota>>
    /\ UNCHANGED <<url_param_map, fetched, confirmed, infos>>
    /\ UNCHANGED pvars

\* lines 218 and 219: an entry that is no regular file
BatchSkip ==
    /\ pc = "batch" /\ fi <= Len(files)
    /\ ~files[fi].is_file
    /\ fi' = fi + 1
    /\ UNCHANGED <<pc, urls, ui, options, oi, params, clock, probes, endpoint, upload_urls,
                   files, ei, attempts, warnings, errors, quota>>
    /\ UNCHANGED <<url_param_map, fetched, confirmed, reported, folder, infos>>
    /\ UNCHANGED pvars

\* a loop of line 220 that a failing upload leaves
BatchUpload_stops(is_file, resp) ==
    /\ pc = "batch" /\ fi <= Len(files)
    /\ files[fi].is_file
    /\ ei <= Len(upload_urls)
    /\ ~is_file => resp = TransportError
    /\ LET res == upload_file(upload_urls[ei], is_file, resp)
       IN  /\ attempts' = Append(attempts, [file |-> files[fi].name, endpoint |-> ei,
                                            url |-> upload_urls[ei]])
           /\ IF res.exc = "none"
              THEN infos' = infos + 1 /\ ei' = ei + 1 /\ UNCHANGED warnings
              ELSE warnings' = warnings + 1 /\ ei' = Len(upload_urls) + 1 /\ UNCHANGED infos
    /\ UNCHANGED <<pc, urls, ui, options, oi, params, clock, probes, endpoint, upload_urls,
                   files, fi, errors, quota>>
    /\ UNCHANGED <<url_param_map, fetched, confirmed, reported, folder>>
    /\ UNCHANGED pvars

\* lines 220 to 225: one file is uploaded to one endpoint and the outcome
\* logged, the result at line 223 or, by the handler of line 224, the failure
\* at line 225; is_file is file_path.is_file() at line 93
BatchUpload(is_file, resp) ==
    /\ pc = "batch" /\ fi <= Len(files)
    /\ files[fi].is_file
    /\ ei <= Len(upload_urls)
    /\ ~is_file => resp = TransportError
    /\ LET res == upload_file(upload_urls[ei], is_file, resp)
       IN  /\ attempts' = Append(attempts, [file |-> files[fi].name, endpoint |-> ei,
                                            url |-> upload_urls[ei]])
           /\ IF res.exc = "none"
              THEN infos' = infos + 1 /\ ei' = ei + 1 /\ UNCHANGED <<pc, warnings>>
              ELSE IF IsException(res.exc)
              THEN warnings' = warnings + 1 /\ ei' = ei + 1 /\ UNCHANGED <<pc, infos>>
              ELSE pc' = "aborted" /\ UNCHANGED <<ei, infos, warnings>>
    /\ UNCHANGED <<urls, ui, options, oi, params, clock, probes, endpoint, upload_urls,
                   files, fi, errors, quota>>
    /\ UNCHANGED <<url_param_map, fetched, confirmed, reported, folder>>
    /\ UNCHANGED pvars

\* the loop of line 220 is exhausted: on to the next entry
BatchNextFile ==
    /\ pc = "batch" /\ fi <= Len(files)
    /\ files[fi].is_file
    /\ ei > Len(upload_urls)
    /\ fi' = fi + 1
    /\ ei' = 1
    /\ UNCHANGED <<pc, urls, ui, options, oi, params, clock, probes, endpoint, upload_urls,
                   files, attempts, warnings, errors, quota>>
    /\ UNCHANGED <<url_param_map, fetched, confirmed, reported, folder, infos>>
    /\ UNCHANGED pvars

\* the loop of line 217 is exhausted: main returns
BatchDone ==
    /\ pc = "batch" /\ fi > Len(files)
    /\ pc' = "done"
    /\ UNCHANGED <<urls, ui, options, oi, params, clock, probes, endpoint, upload_urls,
                   files, fi, ei, attempts, warnings, errors, quota>>
    /\ UNCHANGED <<url_param_map, fetched, confirmed, reported, folder, infos>>
    /\ UNCHANGED pvars

Next ==
    \/ FetchFails
    \/ \E page \in SeqsUpTo(OptionPool, MaxOptions) : FetchPage(page)
    \/ SkipOption
    \/ \E tick \in {0, 1}, is_file \in BOOLEAN, resp \in Answers :
          ProbeOption(tick, is_file, resp)
    \/ Exhausted
    \/ MainTakes
    \/ \E d \in BOOLEAN, listing \in Listings : StartBatch(d, listing)
    \/ BatchSkip
    \/ \E is_file \in BOOLEAN, resp \in Answers : BatchUpload(is_file, resp)
    \/ BatchNextFile
    \/ BatchDone

\* the steps of a run over several base URLs
NextRun ==
    \/ FetchFails
    \/ \E page \in SeqsUpTo(RunOptionPool, MaxOptions) : FetchPage(page)
    \/ SkipOption
    \/ \E tick \in {0, 1}, is_file \in BOOLEAN, resp \in RunAnswers :
          ProbeOption(tick, is_file, resp)
    \/ Exhausted
    \/ MainTakes
    \/ \E d \in BOOLEAN, listing \in RunListings : StartBatch(d, listing)
    \/ BatchSkip
    \/ \E is_file \in BOOLEAN, resp \in RunAnswers : BatchUpload(is_file, resp)
    \/ BatchNextFile
    \/ BatchDone

Spec == Init /\ [][NextRun]_vars

\* every call made in a run returns or raises: no step of main waits for ever
SpecLive == Init /\ [][NextRun]_vars /\ WF_vars(NextRun)

SpecDiscovery == InitOne /\ [][Next]_vars

\* ===================================================================== claims
\* an upload_file call that went as far as a response
GotResponse == ppc = "upload_file" /\ call.is_file /\ ~call.resp.error

\* C1: upload_file returns the parsed argument sequence if and only if the
\* response has status 200 and a non-empty body, parse_onupload_list returns a
\* non-empty sequence and its first element is "0" or "201"; a 200 response
\* whose body parses to the empty sequence is never a success.
C1_SuccessIff ==
    GotResponse =>
        LET p == parse_onupload_list(call.resp.text)
            ok == /\ call.resp.status_code = 200
                  /\ call.resp.text /= <<>>
                  /\ p.exc = "none"
                  /\ p.value /= <<>>
                  /\ p.value[1] \in {"0", "201"}
        IN  /\ (parsed.exc = "none") <=> ok
            /\ ok => parsed.value = p.value

\* C1's case: a 200 response with a body whose parse result is empty
C1_Witness ==
    /\ GotResponse
    /\ call.resp.status_code = 200
    /\ call.resp.text /= <<>>
    /\ parse_onupload_list(call.resp.text) = Returned(<<>>)
    /\ parsed.exc /= "none"

\* the message names the status code and holds the raw body
Carries(msg, resp) ==
    /\ \E i \in 1..Len(msg) : msg[i] = ToString(resp.status_code)
    /\ \E i \in 1..Len(msg) :
          /\ i + Len(resp.text) - 1 <= Len(msg)
          /\ SubSeq(msg, i, i + Len(resp.text) - 1) = resp.text

\* C2: when a response with status 200 and a non-empty body is not a success
\* (the parse result is empty, or its first element is not "0" or "201"), the
\* failure that upload_file reports carries the status code and the raw body.
C2_FailureCarriesResponse ==
    ( /\ GotResponse
      /\ call.resp.status_code = 200
      /\ call.resp.text /= <<>>
      /\ parse_onupload_list(call.resp.text).exc = "none"
      /\ parsed.exc /= "none" )
    => Carries(parsed.msg, call.resp)

\* parse_onupload_list was called on a body rendered from the argument list src
ParsedRendered == mode = "args" /\ ppc = "parse_onupload_list"

\* C3: for a well-formed invocation (arguments that are unquoted tokens or
\* strings in ' or ", quotes balanced, escapes valid) parse_onupload_list
\* returns one element per argument, in source order, each the argument's
\* value: quotes stripped, escapes decoded, commas in strings kept.
C3_WellFormedArguments == ParsedRendered => parsed = Returned(Values(src))

\* the argument a is a string with a ")" in it
HasParen(a) == a.quote /= "" /\ \E i \in 1..Len(a.units) : a.units[i].val = ")"

\* the argument a is written in ASCII
IsAscii(a) == \A i \in 1..Len(a.units) : a.units[i].val /= EAcute

\* C4: a ")" inside a quoted argument does not end the argument list: that
\* argument and all arguments after it are still returned.
C4_ParenInString ==
    ( /\ ParsedRendered
      /\ \E i \in 1..Len(src) : HasParen(src[i])
      /\ \A i \in 1..Len(src) : IsAscii(src[i]) )
    => /\ parsed.exc = "none"
       /\ Len(parsed.value) = Len(src)
       /\ \A i \in 1..Len(src) : parsed.value[i] = Values(src)[i]

\* C5: an explicit empty string argument ("" or '') at any position, the last
\* included, is one empty-string element of the result at that position.
C5_EmptyStringKept ==
    ParsedRendered =>
        \A i \in 1..Len(src) :
            (src[i].quote /= "" /\ src[i].units = <<>>)
            => /\ parsed.exc = "none"
               /\ Len(parsed.value) >= i
               /\ parsed.value[i] = ""

\* C6: parse_onupload_list returns a sequence for every input text and never
\* raises, also with unbalanced quotes or an incomplete backslash escape.
C6_NeverRaises == ppc = "parse_onupload_list" => parsed.exc = "none"

\* the text holds an invocation: the name in some spelling, optional
\* whitespace, "(" and a later ")"
HasInvocation(t) ==
    \E i \in 1..Len(t) :
        /\ t[i] \in CallbackSpellings
        /\ \E j \in (i + 1)..Len(t) :
              /\ t[j] = "("
              /\ \A m \in (i + 1)..(j - 1) : IsSpace(t[m])
              /\ \E k \in (j + 1)..Len(t) : t[k] = ")"

\* C7: on a text with no invocation of the callback parse_onupload_list
\* returns the empty sequence and raises nothing.
C7_NoInvocationEmpty ==
    (ppc = "parse_onupload_list" /\ ~HasInvocation(text)) => parsed = Returned(<<>>)

\* C7's case: the name and "(" are there, with arguments, but no ")" follows
C7_Witness ==
    /\ ppc = "parse_onupload_list"
    /\ ~HasInvocation(text)
    /\ Len(text) >= 3
    /\ text[1] \in CallbackSpellings
    /\ text[2] = "("
    /\ text[3] = "n"

RECURSIVE QualifyingFrom(_, _)
\* the indices, from i on, of the options of os that qualify, in document order
QualifyingFrom(os, i) ==
    IF i > Len(os) THEN <<>>
    ELSE IF Qualifies(os[i]) THEN <<i>> \o QualifyingFrom(os, i + 1)
    ELSE QualifyingFrom(os, i + 1)

\* C8: get_upload_url probes the qualifying options in document order, each
\* once, and returns the candidate of the first probe that succeeds, probing
\* no option after it; it returns None only after every qualifying option was
\* probed and failed.
C8_FirstSuccessWins ==
    pc = "returned" =>
        LET q == QualifyingFrom(options, 1)
            n == Len(probes)
        IN  /\ n <= Len(q)
            /\ \A i \in 1..n : probes[i].option = q[i]
            /\ \A i \in 1..(n - 1) : ~probes[i].ok
            /\ IF endpoint.none
               THEN n = Len(q) /\ (n > 0 => ~probes[n].ok)
               ELSE n > 0 /\ probes[n].ok /\ endpoint.url = probes[n].candidate

\* C8's case: three qualifying options, the first probe fails, the second
\* succeeds and its candidate is returned with the third option unprobed
C8_Witness ==
    /\ pc = "returned"
    /\ Len(QualifyingFrom(options, 1)) = 3
    /\ Len(probes) = 2
    /\ ~probes[1].ok
    /\ probes[2].ok
    /\ endpoint = Some(probes[2].candidate)

\* base_url up to and including its last "/"
UpToLastSlash(s) == SubSeq(s, 1, Len(s) - Len(LastSegment(s)))

\* C9: the candidate base is the base URL with only its last path segment
\* replaced by the option value: all of the base URL up to and including its
\* last "/" is kept, then comes the option value (and the query, if any).
C9_OnlyLastSegmentReplaced ==
    pc \in {"options", "returned"} =>
        \A i \in 1..Len(probes) :
            LET want == UpToLastSlash(urls[ui]) \o options[probes[i].option].value
                c == probes[i].candidate
            IN  /\ Len(c) >= Len(want)
                /\ SubSeq(c, 1, Len(want)) = want
                /\ Len(c) > Len(want) => c[Len(want) + 1] = "?"

\* the query string of a candidate: what follows its "?"
QueryOf(c) ==
    LET marks == {i \in 1..Len(c) : c[i] = "?"}
    IN  IF marks = {} THEN <<>> ELSE SubSeq(c, Min(marks) + 1, Len(c))

\* C10: when the template of the base URL has the {timestamp} placeholder,
\* every candidate of the discovery carries the clock value read when that
\* candidate was built.
C10_TimestampPerCandidate ==
    pc \in {"options", "returned"} =>
        LET tpl == LookupParams(URL_PARAM_MAP, urls[ui])
        IN  (~tpl.none /\ Contains(tpl.s, <<"{timestamp}">>)) =>
                \A i \in 1..Len(probes) :
                    QueryOf(probes[i].candidate)
                        = Replace(tpl.s, <<"{timestamp}">>, <<Timestamp(probes[i].read)>>)

RECURSIVE FirstMatchFrom(_, _)
\* the place in URL_PARAM_MAP, from i on, of the first key that occurs in
\* base_url; 0 when there is none
FirstMatchFrom(base_url, i) ==
    IF i > Len(URL_PARAM_MAP) THEN 0
    ELSE IF Contains(base_url, URL_PARAM_MAP[i].key) THEN i
    ELSE FirstMatchFrom(base_url, i + 1)

\* C11: the template of a base URL is that of the first entry of
\* URL_PARAM_MAP, in the order of the table, whose key occurs in the base URL,
\* also when a later key occurs in it too: every candidate ends in "?" and
\* that template, its placeholder resolved.  When no key occurs, or the first
\* that does has no template, the candidate has no "?" and no query appended.
C11_FirstMatchDecides ==
    (pc \in {"options", "returned"} /\ fetched = "page") =>
        LET k == FirstMatchFrom(urls[ui], 1)
            tpl == IF k = 0 THEN NoneParam ELSE URL_PARAM_MAP[k].param
        IN  \A i \in 1..Len(probes) :
                LET base == CandidateBase(urls[ui], options[probes[i].option].value)
                    c == probes[i].candidate
                IN  IF tpl.none THEN c = base
                    ELSE \E t \in 0..clock :
                            c = base \o <<"?">>
                                \o Replace(tpl.s, <<"{timestamp}">>, <<Timestamp(t)>>)

\* C11's case: two keys of the table occur in the base URL, the earlier with
\* a template and the later without, and a candidate has been probed
C11_Witness ==
    /\ pc \in {"options", "returned"}
    /\ fetched = "page"
    /\ probes /= <<>>
    /\ \E j, k \in 1..Len(URL_PARAM_MAP) :
          /\ j < k
          /\ Contains(urls[ui], URL_PARAM_MAP[j].key)
          /\ Contains(urls[ui], URL_PARAM_MAP[k].key)
          /\ ~URL_PARAM_MAP[j].param.none
          /\ URL_PARAM_MAP[k].param.none

\* C12: when the fetch of the base test page fails, get_upload_url returns
\* None, raises nothing and has probed no candidate of that base URL; main
\* then goes on to the next base URL with upload_urls as it was.
C12_FetchErrorSkipsUrl ==
    /\ [](fetched = "error" => (pc = "returned" /\ endpoint = None /\ probes = <<>>))
    /\ [][fetched = "error" =>
             (pc' = "discover" /\ ui' = ui + 1 /\ upload_urls' = upload_urls)]_vars

\* C12's case: the fetch of the first of two base URLs has failed
C12_Witness ==
    /\ fetched = "error"
    /\ ui = 1
    /\ Len(urls) = 2

RECURSIVE RegularFiles(_)
\* the names of the regular files of a listing, in its order
RegularFiles(l) ==
    IF l = <<>> THEN <<>>
    ELSE IF Head(l).is_file THEN <<Head(l).name>> \o RegularFiles(Tail(l))
    ELSE RegularFiles(Tail(l))

\* C13: when the upload folder is a directory, every pair of a regular file
\* and a confirmed endpoint is attempted exactly once and no failing attempt
\* aborts the run or skips a later pair: as the batch phase advances the
\* attempts made are those of the pairs passed, each with one recorded
\* outcome, and at the end N files and M endpoints have N*M attempts and
\* N*M outcomes.
C13_EveryPairOnce ==
    /\ pc /= "aborted"
    /\ folder = "dir" =>
           LET M == Len(upload_urls)
               passed == RegularFiles(SubSeq(files, 1, fi - 1))
               N == Len(RegularFiles(files))
               here == IF pc = "batch" /\ fi <= Len(files) /\ files[fi].is_file
                       THEN ei - 1 ELSE 0
           IN  /\ Len(attempts) = Len(passed) * M + here
               /\ infos + warnings = Len(attempts)
               /\ \A k \in 1..Len(attempts) :
                     /\ attempts[k].endpoint = ((k - 1) % M) + 1
                     /\ attempts[k].file = RegularFiles(files)[((k - 1) \div M) + 1]
               /\ pc = "done" => Len(attempts) = N * M

\* C13's case: two files and two endpoints, four attempts made, some failed
C13_Witness ==
    /\ pc = "done"
    /\ folder = "dir"
    /\ Len(RegularFiles(files)) = 2
    /\ Len(upload_urls) = 2
    /\ Len(attempts) = 4
    /\ warnings >= 1
    /\ infos >= 1

\* C14: when the upload folder is no directory, the batch phase logs one
\* error, the only one of the run, and attempts no upload, however many
\* endpoints are confirmed; the list of endpoints logged before is the list
\* discovery left.
C14_NoDirectoryOneError ==
    /\ errors <= 1
    /\ folder = "other" =>
           /\ pc = "done"
           /\ errors = 1
           /\ attempts = <<>>
           /\ infos = 0
           /\ warnings = 0
           /\ reported = Reported(upload_urls)
    /\ folder = "dir" => errors = 0

\* C14's case: no directory, with two confirmed endpoints
C14_Witness ==
    /\ folder = "other"
    /\ pc = "done"
    /\ Len(upload_urls) = 2

C16_RunTerminates ==
    <>(/\ pc = "done"
       /\ ui = Len(urls) + 1
       /\ reported.done
       /\ reported.count = Len(upload_urls))

\* C16's case: a run over two base URLs has ended with a probe made and no
\* endpoint confirmed
C16_Witness ==
    /\ pc = "done"
    /\ Len(urls) = 2
    /\ clock >= 1
    /\ upload_urls = <<>>
    /\ folder = "dir"

\* C17: at every point of a run every entry of upload_urls is the candidate
\* of a probe that succeeded earlier in the run, the entries stem from
\* different base URLs taken in the order of the URL list, so there is at most
\* one per base URL; an upload of the batch phase is made only when discovery
\* is over for all base URLs, and to an entry of upload_urls.
C17_ConfirmedEndpoints ==
    /\ Len(upload_urls) <= Len(confirmed)
    /\ Len(confirmed) <= Len(upload_urls) + 1
    /\ \A i \in 1..Len(upload_urls) : upload_urls[i] = confirmed[i].candidate
    /\ \A i \in 1..Len(confirmed) :
          /\ confirmed[i].url \in 1..Len(urls)
          /\ confirmed[i].url <= ui
          /\ i <= Len(upload_urls) => confirmed[i].url < ui
          /\ \A j \in 1..(i - 1) : confirmed[j].url < confirmed[i].url
    /\ Len(upload_urls) <= Len(urls)
    /\ attempts /= <<>> =>
          /\ pc \in {"batch", "done"}
          /\ ui = Len(urls) + 1
          /\ Len(upload_urls) = Len(confirmed)
          /\ \A k \in 1..Len(attempts) :
                /\ attempts[k].endpoint \in 1..Len(upload_urls)
                /\ attempts[k].url = upload_urls[attempts[k].endpoint]

\* C17's case: of two base URLs only the second gave an endpoint, and the
\* batch phase has uploaded to it
C17_Witness ==
    /\ pc = "batch"
    /\ attempts /= <<>>
    /\ Len(urls) = 2
    /\ Len(upload_urls) = 1
    /\ confirmed[1].url = 2

\* the option o has a value that is not empty and holds "upload" or "connectors"
Wanted(o) ==
    /\ o.has
    /\ o.value /= <<>>
    /\ \E i \in 1..Len(o.value) : o.value[i] \in {"upload", "connectors"}

\* C18: get_upload_url probes only options whose value is not empty and
\* holds "upload" or "connectors": an option without value, with the empty
\* value or with neither word causes no POST, and a page none of whose
\* options qualifies gives None after no probe.
C18_OnlyQualifyingProbed ==
    (pc \in {"options", "returned"} /\ fetched = "page") =>
        /\ \A i \in 1..Len(probes) : Wanted(options[probes[i].option])
        /\ \A i \in 1..Len(options) :
              (i < oi /\ ~Wanted(options[i])) => \A k \in 1..Len(probes) : probes[k].option /= i
        /\ (pc = "returned" /\ \A i \in 1..Len(options) : ~Wanted(options[i]))
              => (endpoint = None /\ probes = <<>>)

\* C18's case: a page of three options, one without value, one with the
\* empty value and one with another word, has been gone through
C18_Witness ==
    /\ pc = "returned"
    /\ fetched = "page"
    /\ {options[i] : i \in 1..Len(options)} = {NoValue, Value(<<>>), Value(<<"lasso">>)}
    /\ probes = <<>>
    /\ endpoint = None

\* the argument a is blank: unquoted, with nothing but whitespace
IsBlank(a) == a.quote = "" /\ a.units = <<>>

RECURSIVE NonBlank(_)
\* the arguments of as that are not blank, in source order
NonBlank(as) ==
    IF as = <<>> THEN <<>>
    ELSE IF IsBlank(Head(as)) THEN NonBlank(Tail(as))
    ELSE <<Head(as)>> \o NonBlank(Tail(as))

\* C19: parse_onupload_list leaves out an argument only when the text between
\* its delimiters is blank: the result has one element for every other
\* argument, in source order, so its length is the number of arguments that
\* are not blank, and an argument after a blank one moves up.
C19_OnlyBlankOmitted ==
    (mode \in {"args", "sparse"} /\ ppc = "parse_onupload_list") =>
        LET want == NonBlank(src)
        IN  /\ parsed.exc = "none"
            /\ Len(parsed.value) = Len(want)
            /\ \A i \in 1..Len(want) :
                  IsAscii(want[i]) => parsed.value[i] = UnitsVal(want[i].units)

\* what C19 says of the invocations no string of which holds a ")"
BlankRuleApartFromParens ==
    ( /\ mode \in {"args", "sparse"} /\ ppc = "parse_onupload_list"
      /\ \A i \in 1..Len(src) : \A k \in 1..Len(src[i].units) :
            src[i].units[k].val /= ")" )
    => LET want == NonBlank(src)
       IN  /\ parsed.exc = "none"
           /\ Len(parsed.value) = Len(want)
           /\ \A i \in 1..Len(want) :
                 IsAscii(want[i]) => parsed.value[i] = UnitsVal(want[i].units)

\* a blank argument between two others has been parsed
BlankArgumentParsed ==
    /\ mode = "sparse" /\ ppc = "parse_onupload_list"
    /\ Len(src) = 3
    /\ IsBlank(src[2]) /\ ~IsBlank(src[1]) /\ ~IsBlank(src[3])
    /\ parsed = Returned(<<UnitsVal(src[1].units), UnitsVal(src[3].units)>>)

\* C20: no call of get_upload_url changes URL_PARAM_MAP: resolving the
\* {timestamp} placeholder for one base URL leaves the table's template as it
\* was, so a later discovery, of another or of the same base URL, looks up
\* the template with the placeholder still in it.
C20_TableUnchanged ==
    /\ url_param_map = URL_PARAM_MAP
    /\ (pc = "options" /\ probes = <<>>) =>
           LET k == FirstMatchFrom(urls[ui], 1)
           IN  params = IF k = 0 THEN NoneParam ELSE URL_PARAM_MAP[k].param

\* C20's case: the placeholder was resolved in the discovery of a base URL,
\* and the discovery of the same base URL, next in the list, has looked up
\* its template
C20_Witness ==
    /\ pc = "options"
    /\ probes = <<>>
    /\ ui = 2
    /\ urls[1] = urls[2]
    /\ Contains(URL_PARAM_MAP[FirstMatchFrom(urls[1], 1)].param.s, <<"{timestamp}">>)
    /\ clock >= 1
    /\ Contains(params.s, <<"{timestamp}">>)

====
